---- MODULE Spec2Model ----
(***************************************************************************)
(* Lot reconciliation and realized P&L of the statement import             *)
(* (FileImport.tsx, handleAnalyze / handleImport) and the closed-position  *)
(* history store (saveClosedPositions).                                    *)
(*                                                                         *)
(* Prices are integers in cents; a realized P&L is therefore in cents too  *)
(* (2.00 -> 200, and (2.00 - 0.50) * 100 * 3 = 450.00 -> 45000).           *)
(***************************************************************************)
EXTENDS Integers, Sequences, FiniteSets, TLC

\* Bounds of the explored inputs.
MaxLegs == 3
MaxContracts == 4
MaxRuns == 2
MaxIds == 3
MaxBatch == 2

\* JavaScript null/undefined of a nullable number, and a present number.
Null == <<>>
Num(v) == <<v>>
\* undefined of an optional string field (transCode, entryDate).
Undefined == "<undefined>"
\* A position without _id (undefined); the _id strings are modelled by the
\* row number that the random suffix makes unique.
NoId == 0

Min(a, b) == IF a <= b THEN a ELSE b

RECURSIVE SumSeq(_)
SumSeq(s) == IF s = <<>> THEN 0 ELSE Head(s) + SumSeq(Tail(s))

(***************************************************************************)
(* Input rows: the field values extractPositionFromRow reads from a row.   *)
(***************************************************************************)
PLTR == [ticker |-> "PLTR", optionType |-> "put", strike |-> 150, expiry |-> "2026-02-20"]
AAPL == [PLTR EXCEPT !.ticker = "AAPL"]
PLTRcall == [PLTR EXCEPT !.optionType = "call"]
PLTR155 == [PLTR EXCEPT !.strike = 155]
PLTRmar == [PLTR EXCEPT !.expiry = "2026-03-20"]

Row(inst, side, qty, price, date, code, desc) ==
  [ticker |-> inst.ticker, optionType |-> inst.optionType, strike |-> inst.strike,
   expiry |-> inst.expiry, side |-> side, quantity |-> qty, entryPrice |-> price,
   entryDate |-> date, transCode |-> code, descPutCall |-> desc]

\* Rows of a brokerage statement with transaction codes (the description
\* format of lines 187-231, which sets side = sell for STO, BTC and OASGN):
\* one instrument at every price.
PricedRows ==
  {Row(PLTR, "sell", q, p, "2026-01-05", "STO", TRUE) :
      q \in 1..MaxContracts, p \in {0, 100, 200}}
  \cup
  {Row(PLTR, "sell", q, p, "2026-01-20", "BTC", TRUE) :
      q \in 1..MaxContracts, p \in {0, 50}}

\* The same for two instruments, at one opening and one closing price.
TwoInstrumentRows ==
  {Row(i, "sell", q, 200, "2026-01-05", "STO", TRUE) :
      i \in {PLTR, AAPL}, q \in 1..MaxContracts}
  \cup
  {Row(i, "sell", q, 50, "2026-01-20", "BTC", TRUE) :
      i \in {PLTR, AAPL}, q \in 1..MaxContracts}

\* Rows of a generic export (lines 233-260): any side, with or without a code.
GenericRows ==
  {Row(i, s, 1, p, d, c, TRUE) :
      i \in {PLTR, AAPL, PLTRcall, PLTR155, PLTRmar}, s \in {"buy", "sell"},
      p \in {100, 200}, d \in {"2026-01-05", Undefined}, c \in {"STO", Undefined}}

TransCodes ==
  {Undefined, "", "STO", "sto", "SELL", "Sell", "STO-OPEN", "BTC", "btc", "OASGN",
   "BTO", "BUY", "buy", "OEXP", "put"}

\* Single rows with every transaction code, valid or not for the filter.
CodedRows ==
  {Row(i, s, 1, 100, "2026-01-05", c, desc) :
      i \in {PLTR, [PLTR EXCEPT !.strike = 0], [PLTR EXCEPT !.expiry = ""]},
      s \in {"buy", "sell"}, c \in TransCodes, desc \in BOOLEAN}

Contracts(rows) == SumSeq([k \in 1..Len(rows) |-> rows[k].quantity])

\* The statements of at most n rows of R and at most MaxContracts contracts.
RECURSIVE Statements(_, _)
Statements(R, n) ==
  IF n = 0 THEN {<<>>}
  ELSE LET shorter == Statements(R, n - 1)
       IN shorter \cup
          UNION {{Append(s, r) :
                    r \in {x \in R : Contracts(s) + x.quantity <= MaxContracts}} :
                 s \in {t \in shorter : Len(t) = n - 1}}

\* Statements in which one lot of q + 1 contracts is closed by two equal rows
\* of q contracts each: the lot covers the first row and part of the second.
OverCloseStatements ==
  {<<Row(PLTR, "sell", q + 1, p, "2026-01-05", "STO", TRUE),
     Row(PLTR, "sell", q, c, "2026-01-20", "BTC", TRUE),
     Row(PLTR, "sell", q, c, "2026-01-20", "BTC", TRUE)>> :
      q \in 2..(MaxContracts - 2), p \in {0, 200}, c \in {0, 50}}

\* Statements with an assignment: an OASGN row has neither price nor amount,
\* so its entryPrice stays 0 (lines 221-231).
AssignmentStatements ==
  {<<Row(PLTR, "sell", q1, p, "2026-01-05", "STO", TRUE),
     Row(PLTR, "sell", q2, 0, "2026-01-20", "OASGN", TRUE)>> :
      q1 \in 1..MaxContracts, q2 \in 1..MaxContracts, p \in {100, 200}}

Inputs ==
  Statements(PricedRows, MaxLegs)
  \cup Statements(TwoInstrumentRows, MaxLegs)
  \cup OverCloseStatements
  \cup AssignmentStatements
  \cup {<<a, b>> : a \in GenericRows, b \in GenericRows}
  \cup {<<a>> : a \in CodedRows}

\* The object extractPositionFromRow returns for the i-th row.
ExtractPosition(row, i) ==
  row @@ [_id |-> i, selected |-> TRUE, realizedPnl |-> Null, pairedWith |-> NoId]

(***************************************************************************)
(* Pure helpers of handleAnalyze.                                          *)
(***************************************************************************)
\* String.prototype.toUpperCase on the transaction codes of the inputs.
ToUpperCase(s) ==
  CASE s = "sto" -> "STO"
    [] s = "Sell" -> "SELL"
    [] s = "btc" -> "BTC"
    [] s = "buy" -> "BUY"
    [] s = "put" -> "PUT"
    [] OTHER -> s

\* (p.transCode || '')
CodeOrEmpty(tc) == IF tc = Undefined THEN "" ELSE tc

\* The validity filter of lines 390-399.
IsValidPosition(p) ==
  /\ p.ticker # ""
  /\ p.strike > 0
  /\ p.expiry # ""
  /\ p.optionType \in {"call", "put"}
  /\ p.descPutCall

ValidPositions(ps) == SelectSeq(ps, IsValidPosition)

\* Variant that compares the code as written, without toUpperCase.
ClassifyCaseSensitive(p) ==
  LET tc == CodeOrEmpty(p.transCode)
  IN IF tc = "STO" \/ tc = "SELL" \/ tc = "STO-OPEN" THEN "open"
     ELSE IF tc = "BTC" \/ tc = "OASGN" \/ tc = "BTO" \/ tc = "BUY" THEN "closed"
     ELSE IF p.side = "sell" THEN "open"
     ELSE "closed"

\* Variant without the side heuristic: an unknown code is a close.
ClassifyWithoutFallback(p) ==
  LET tc == ToUpperCase(CodeOrEmpty(p.transCode))
  IN IF tc = "STO" \/ tc = "SELL" \/ tc = "STO-OPEN" THEN "open" ELSE "closed"

\* The class of one position, lines 406-416: "open" or "closed".
Classify(p) ==
  LET tc == ToUpperCase(CodeOrEmpty(p.transCode))
  IN IF tc = "STO" \/ tc = "SELL" \/ tc = "STO-OPEN" THEN "open"
     ELSE IF tc = "BTC" \/ tc = "OASGN" \/ tc = "BTO" \/ tc = "BUY" THEN "closed"
     ELSE IF p.side = "sell" THEN "open"
     ELSE "closed"

IsOpening(p) == Classify(p) = "open"
IsClosing(p) == Classify(p) = "closed"

\* Variant of aggKey without the entry date.
AggKeyWithoutDate(o) ==
  <<o.ticker, o.optionType, o.strike, o.expiry, o.side, o.entryPrice>>

\* aggKey of line 423; `${o.entryDate || ''}` turns a missing date into ''.
AggKey(o) ==
  <<o.ticker, o.optionType, o.strike, o.expiry, o.side, o.entryPrice,
    IF o.entryDate = Undefined THEN "" ELSE o.entryDate>>

\* Variant of the aggregation loop that keeps the quantity of the first leg
\* of a group instead of adding the later ones to it.
RECURSIVE AggregateFromKeepingFirst(_, _)
AggregateFromKeepingFirst(rest, acc) ==
  IF rest = <<>> THEN acc
  ELSE LET o == Head(rest)
           hit == {j \in 1..Len(acc) : AggKey(acc[j]) = AggKey(o)}
       IN IF hit # {}
          THEN AggregateFromKeepingFirst(Tail(rest), acc)
          ELSE AggregateFromKeepingFirst(Tail(rest), Append(acc, o))

\* Variant of the aggregation loop that puts a new lot in front of the others.
RECURSIVE AggregateFromNewestFirst(_, _)
AggregateFromNewestFirst(rest, acc) ==
  IF rest = <<>> THEN acc
  ELSE LET o == Head(rest)
           hit == {j \in 1..Len(acc) : AggKey(acc[j]) = AggKey(o)}
       IN IF hit # {}
          THEN LET j == CHOOSE k \in hit : TRUE
               IN AggregateFromNewestFirst(Tail(rest),
                    [acc EXCEPT ![j].quantity = acc[j].quantity + o.quantity])
          ELSE AggregateFromNewestFirst(Tail(rest), <<o>> \o acc)

\* The aggregation loop of lines 420-430, one opening position at a time.
RECURSIVE AggregateFrom(_, _)
AggregateFrom(rest, acc) ==
  IF rest = <<>> THEN acc
  ELSE LET o == Head(rest)
           hit == {j \in 1..Len(acc) : AggKey(acc[j]) = AggKey(o)}
       IN IF hit # {}
          THEN LET j == CHOOSE k \in hit : TRUE
               IN AggregateFrom(Tail(rest),
                    [acc EXCEPT ![j].quantity = acc[j].quantity + o.quantity])
          ELSE AggregateFrom(Tail(rest), Append(acc, o))

Aggregate(opens) == AggregateFrom(opens, <<>>)

\* Variant of the pool key without the ticker.
PoolKeyNoTicker(o) == <<o.optionType, o.strike, o.expiry>>

\* key of lines 435 and 443.
PoolKey(o) == <<o.ticker, o.optionType, o.strike, o.expiry>>

\* Variant that lists the lots of a key newest first.
RECURSIVE IndicesWithKeyNewestFirst(_, _, _)
IndicesWithKeyNewestFirst(lots, key, from) ==
  IF from > Len(lots) THEN <<>>
  ELSE IF PoolKey(lots[from]) = key
       THEN IndicesWithKeyNewestFirst(lots, key, from + 1) \o <<from>>
       ELSE IndicesWithKeyNewestFirst(lots, key, from + 1)

\* opensByKey of lines 433-440: for every key the lots (by their index in
\* aggregatedOpen) in the order of aggregatedOpen.
RECURSIVE IndicesWithKey(_, _, _)
IndicesWithKey(lots, key, from) ==
  IF from > Len(lots) THEN <<>>
  ELSE IF PoolKey(lots[from]) = key
       THEN <<from>> \o IndicesWithKey(lots, key, from + 1)
       ELSE IndicesWithKey(lots, key, from + 1)

BuildOpensByKey(lots) ==
  [key \in {PoolKey(lots[j]) : j \in 1..Len(lots)} |-> IndicesWithKey(lots, key, 1)]

\* Variant that offers a leg the first lot of its key only.
PoolOfFirstLot(byKey, c) ==
  IF PoolKey(c) \in DOMAIN byKey THEN <<byKey[PoolKey(c)][1]>> ELSE <<>>

\* opensByKey[key] || []
PoolOf(byKey, c) == IF PoolKey(c) \in DOMAIN byKey THEN byKey[PoolKey(c)] ELSE <<>>

\* (o as any).remaining || 0
RemainingOrZero(o) == IF "remaining" \in DOMAIN o THEN o.remaining ELSE 0

\* (c.realizedPnl || 0)
PnlOrZero(pnl) == IF pnl = Null THEN 0 ELSE pnl[1]

\* Variant of matchQty that takes one contract from a lot at most.
MatchQtyAtMostOne(oRemaining, toMatch) == Min(1, Min(oRemaining, toMatch))

\* Variants of matchQty: the whole closing quantity whatever the lot holds,
\* and the whole lot whatever the leg still needs.
MatchQtyIgnoringLot(oRemaining, toMatch) == toMatch
MatchQtyWholeLot(oRemaining, toMatch) == oRemaining

\* matchQty of line 449.
MatchQty(oRemaining, toMatch) == Min(oRemaining, toMatch)

\* pnl of lines 461-463 for matchQty contracts of lot o closed by c.
MatchPnl(o, c, matchQty) == ((o.entryPrice - c.entryPrice) * 100) * matchQty

\* Variant that computes P&L only against a lot whose row comes before the
\* row of the closing leg in the file.
PnlAfterMatchForEarlierRows(o, c, matchQty) ==
  IF o.entryPrice # 0 /\ o._id < c._id
  THEN Num(PnlOrZero(c.realizedPnl) + MatchPnl(o, c, matchQty))
  ELSE c.realizedPnl

\* Variant that computes P&L only when the closing leg has a price as well.
PnlAfterMatchNeedingClosePrice(o, c, matchQty) ==
  IF o.entryPrice # 0 /\ c.entryPrice # 0
  THEN Num(PnlOrZero(c.realizedPnl) + MatchPnl(o, c, matchQty))
  ELSE c.realizedPnl

\* Variant that stores the last match instead of adding it.
PnlAfterMatchOverwriting(o, c, matchQty) ==
  IF o.entryPrice # 0 THEN Num(MatchPnl(o, c, matchQty)) ELSE c.realizedPnl

\* c.realizedPnl after the match of lines 460-465.
PnlAfterMatch(o, c, matchQty) ==
  IF o.entryPrice # 0
  THEN Num(PnlOrZero(c.realizedPnl) + MatchPnl(o, c, matchQty))
  ELSE c.realizedPnl

\* new Date().toISOString().split('T')[0] on day number d.
ISODate(d) == "2026-02-0" \o ToString(d)

\* One record of closedForHistory (lines 476-493) or of
\* selectedClosedForHistory (lines 551-568).
\* clock is what new Date() returns: the day and the instant within it.
HistoryRecord(c, id, source, clock) ==
  [id |-> id, ticker |-> c.ticker, optionType |-> c.optionType, side |-> c.side,
   strike |-> c.strike, expiry |-> c.expiry, quantity |-> c.quantity,
   entryPrice |-> c.entryPrice, closePrice |-> c.entryPrice,
   entryDate |-> IF c.entryDate = Undefined THEN ISODate(clock.day) ELSE c.entryDate,
   closeDate |-> ISODate(clock.day),
   realizedPnl |-> PnlOrZero(c.realizedPnl),
   notes |-> <<CodeOrEmpty(c.transCode), IF c.pairedWith # NoId THEN "yes" ELSE "no">>,
   importedFrom |-> source, importDate |-> clock]

IsPaired(c) == c.pairedWith # NoId

\* Variant of closedForHistory that keeps only the legs paired with a lot.
ClosedForHistoryPairedOnly(cl, firstId, clock) ==
  LET paired == SelectSeq(cl, IsPaired)
  IN [k \in 1..Len(paired) |->
        HistoryRecord(paired[k], firstId + k, "CSV Auto-import", clock)]

\* closedForHistory of lines 476-493: closed.map, one generateId() per leg.
ClosedForHistory(cl, firstId, clock) ==
  [k \in 1..Len(cl) |-> HistoryRecord(cl[k], firstId + k, "CSV Auto-import", clock)]

\* Variant that pushes every record of the batch, whatever its id.
MergeClosedAppending(merged, batch) == merged \o batch

\* Variant that takes a record for stored already when the store holds one
\* with the same content, whatever the ids and the dates of the save.
SameTrade(a, b) ==
  [a EXCEPT !.id = 0, !.closeDate = "", !.importDate = 0]
    = [b EXCEPT !.id = 0, !.closeDate = "", !.importDate = 0]

RECURSIVE MergeClosedByContent(_, _)
MergeClosedByContent(merged, batch) ==
  IF batch = <<>> THEN merged
  ELSE LET pos == Head(batch)
           hit == {k \in 1..Len(merged) : SameTrade(merged[k], pos)}
       IN IF hit # {}
          THEN LET index == CHOOSE k \in hit : \A m \in hit : k <= m
               IN MergeClosedByContent([merged EXCEPT ![index] = pos], Tail(batch))
          ELSE MergeClosedByContent(Append(merged, pos), Tail(batch))

\* saveClosedPositions: upsert of the batch into the stored list, by id.
RECURSIVE MergeClosed(_, _)
MergeClosed(merged, batch) ==
  IF batch = <<>> THEN merged
  ELSE LET pos == Head(batch)
           hit == {k \in 1..Len(merged) : merged[k].id = pos.id}
       IN IF hit # {}
          THEN LET index == CHOOSE k \in hit : \A m \in hit : k <= m
               IN MergeClosed([merged EXCEPT ![index] = pos], Tail(batch))
          ELSE MergeClosed(Append(merged, pos), Tail(batch))

\* One OptionPosition handed to onImport (lines 535-546).
ImportedPosition(p, id) ==
  [id |-> id, ticker |-> p.ticker, optionType |-> p.optionType, side |-> p.side,
   strike |-> p.strike, expiry |-> p.expiry, quantity |-> p.quantity,
   entryPrice |-> p.entryPrice, entryDate |-> p.entryDate]

\* Variant of the selection filter that lets every entry through.
IsSelectedOrNot(p) == TRUE

IsSelected(p) == p.selected

\* Variant of the stillOpen test that keeps exhausted lots.
HasRemainingOrNone(o) == RemainingOrZero(o) >= 0

\* The test of the stillOpen filter, line 472.
HasRemaining(o) == RemainingOrZero(o) > 0

(***************************************************************************)
(* State.                                                                  *)
(***************************************************************************)
VARIABLES
  positions,                \* the parsed rows (positions of handleAnalyze)
  pc,                       \* where the import flow stands
  open, closed,             \* the two classes (lines 402-403)
  aggregatedOpen,           \* the lots (line 420)
  opensByKey,               \* key -> lots of that key (line 433)
  ci,                       \* index in closed of the leg of the outer loop
  pi,                       \* index in the pool of the inner loop, 0 before it
  remainingToMatch,         \* line 445
  takes,                    \* history: every (leg, lot, matchQty) of line 449
  unmatched,                \* history: remainingToMatch at the end of each leg
  extractedPositionsOpen,   \* React state, line 35
  extractedPositionsClosed, \* React state, line 36
  closedStore,              \* localStorage[CLOSED_POSITIONS_KEY]
  idCount,                  \* number of ids generateId has handed out
  imported,                 \* what onImport received, Null before
  run,                      \* number of analyses of the file started so far
  now,                      \* the clock: day number and instant
  outputs,                  \* history: the lots, legs and records of every analysis
  saveArg,                  \* newPositions of a saveClosedPositions call on its own
  saveBefore,               \* history: the stored list before that call
  tabPc,                    \* per tab: where its saveClosedPositions call stands
  tabBatch,                 \* per tab: newPositions of its call
  tabExisting,              \* per tab: existing, what getClosedPositions returned
  events                    \* history: the reads and writes of the tabs, in order

vars == <<positions, pc, open, closed, aggregatedOpen, opensByKey, ci, pi,
          remainingToMatch, takes, unmatched, extractedPositionsOpen,
          extractedPositionsClosed, closedStore, idCount, imported,
          run, now, outputs, saveArg, saveBefore,
          tabPc, tabBatch, tabExisting, events>>

Init ==
  /\ \E rows \in Inputs : positions = [i \in 1..Len(rows) |-> ExtractPosition(rows[i], i)]
  /\ pc = "parsed"
  /\ open = <<>>
  /\ closed = <<>>
  /\ aggregatedOpen = <<>>
  /\ opensByKey = <<>>
  /\ ci = 0
  /\ pi = 0
  /\ remainingToMatch = 0
  /\ takes = <<>>
  /\ unmatched = <<>>
  /\ extractedPositionsOpen = <<>>
  /\ extractedPositionsClosed = <<>>
  /\ closedStore = <<>>
  /\ idCount = 0
  /\ imported = Null
  /\ run = 1
  /\ now = [day |-> 1, tick |-> 1]
  /\ outputs = <<>>
  /\ saveArg = <<>>
  /\ saveBefore = <<>>
  /\ tabPc = <<>>
  /\ tabBatch = <<>>
  /\ tabExisting = <<>>
  /\ events = <<>>

tabs == <<tabPc, tabBatch, tabExisting, events>>
session == <<run, now, saveArg, saveBefore, tabs>>
review == <<extractedPositionsOpen, extractedPositionsClosed, closedStore, idCount, imported>>
loop == <<ci, pi, remainingToMatch, takes, unmatched>>

\* Lines 384-387: nothing was parsed.
NoPositions ==
  /\ pc = "parsed"
  /\ Len(positions) = 0
  /\ pc' = "review"
  /\ extractedPositionsOpen' = <<>>
  /\ extractedPositionsClosed' = <<>>
  /\ outputs' = Append(outputs, [lots |-> <<>>, closed |-> <<>>, history |-> <<>>])
  /\ UNCHANGED <<session, positions, open, closed, aggregatedOpen, opensByKey, loop,
                 closedStore, idCount, imported>>

\* Lines 390-417: the filter and the classification.
ClassifyStep ==
  /\ pc = "parsed"
  /\ Len(positions) # 0
  /\ open' = SelectSeq(ValidPositions(positions), IsOpening)
  /\ closed' = SelectSeq(ValidPositions(positions), IsClosing)
  /\ pc' = "classified"
  /\ UNCHANGED <<session, outputs, positions, aggregatedOpen, opensByKey, loop, review>>

\* Lines 419-430.
AggregateStep ==
  /\ pc = "classified"
  /\ aggregatedOpen' = Aggregate(open)
  /\ pc' = "aggregated"
  /\ UNCHANGED <<session, outputs, positions, open, closed, opensByKey, loop, review>>

\* Lines 433-440: remaining is set on every lot and the pools are built.
BuildPoolsStep ==
  /\ pc = "aggregated"
  /\ aggregatedOpen' =
       [j \in 1..Len(aggregatedOpen) |->
          aggregatedOpen[j] @@ [remaining |-> aggregatedOpen[j].quantity]]
  /\ opensByKey' = BuildOpensByKey(aggregatedOpen)
  /\ pc' = "match"
  /\ ci' = 1
  /\ pi' = 0
  /\ UNCHANGED <<session, outputs, positions, open, closed, remainingToMatch, takes, unmatched, review>>

\* Lines 442-445: the outer loop takes the next closing leg.
BeginLeg ==
  /\ pc = "match"
  /\ ci <= Len(closed)
  /\ pi = 0
  /\ remainingToMatch' = closed[ci].quantity
  /\ pi' = 1
  /\ UNCHANGED <<session, outputs, positions, pc, open, closed, aggregatedOpen, opensByKey, ci, takes,
                 unmatched, review>>

\* Lines 446-468: one iteration of the inner loop.
MatchStep ==
  /\ pc = "match"
  /\ ci <= Len(closed)
  /\ pi >= 1
  /\ LET c == closed[ci]
         pool == PoolOf(opensByKey, c)
     IN /\ pi <= Len(pool)
        /\ LET o == aggregatedOpen[pool[pi]]
               oRemaining == RemainingOrZero(o)
               matchQty == MatchQty(oRemaining, remainingToMatch)
           IN IF oRemaining <= 0 \/ matchQty <= 0
              THEN /\ pi' = pi + 1
                   /\ UNCHANGED <<closed, aggregatedOpen, remainingToMatch, takes>>
              ELSE /\ closed' = [closed EXCEPT
                                   ![ci].pairedWith = o._id,
                                   ![ci].realizedPnl = PnlAfterMatch(o, c, matchQty)]
                   /\ aggregatedOpen' =
                        [aggregatedOpen EXCEPT ![pool[pi]].remaining = oRemaining - matchQty]
                   /\ remainingToMatch' = remainingToMatch - matchQty
                   /\ takes' = Append(takes, [leg |-> ci, lot |-> pool[pi], qty |-> matchQty])
                   /\ pi' = IF remainingToMatch - matchQty <= 0 THEN Len(pool) + 1 ELSE pi + 1
  /\ UNCHANGED <<session, outputs, positions, pc, open, opensByKey, ci, unmatched, review>>

\* Variant in which the batch stops at a leg that was not closed in full.
EndLegWhenMatched ==
  /\ pc = "match"
  /\ ci <= Len(closed)
  /\ pi > Len(PoolOf(opensByKey, closed[ci]))
  /\ remainingToMatch = 0
  /\ ci' = ci + 1
  /\ pi' = 0
  /\ unmatched' = Append(unmatched, remainingToMatch)
  /\ UNCHANGED <<session, outputs, positions, pc, open, closed, aggregatedOpen, opensByKey,
                 remainingToMatch, takes, review>>

\* The inner loop is over (pool exhausted or break): on to the next leg.
EndLeg ==
  /\ pc = "match"
  /\ ci <= Len(closed)
  /\ pi > Len(PoolOf(opensByKey, closed[ci]))
  /\ ci' = ci + 1
  /\ pi' = 0
  /\ unmatched' = Append(unmatched, remainingToMatch)
  /\ UNCHANGED <<session, outputs, positions, pc, open, closed, aggregatedOpen, opensByKey,
                 remainingToMatch, takes, review>>

\* Lines 471-498: stillOpen, the history records and their save, the review lists.
PartitionStep ==
  /\ pc = "match"
  /\ ci > Len(closed)
  /\ LET stillOpen == SelectSeq(aggregatedOpen, HasRemaining)
         closedForHistory == ClosedForHistory(closed, idCount, now)
     IN /\ closedStore' = MergeClosed(closedStore, closedForHistory)
        /\ idCount' = idCount + Len(closed)
        /\ extractedPositionsOpen' = stillOpen
        /\ extractedPositionsClosed' = closed
        /\ outputs' = Append(outputs, [lots |-> aggregatedOpen, closed |-> closed,
                                       history |-> closedForHistory])
  /\ pc' = "review"
  /\ UNCHANGED <<session, positions, open, closed, aggregatedOpen, opensByKey, loop, imported>>

\* Lines 507-511.
toggleSelectionOpen(index) ==
  /\ pc = "review"
  /\ index \in 1..Len(extractedPositionsOpen)
  /\ extractedPositionsOpen' =
       [extractedPositionsOpen EXCEPT ![index].selected = ~extractedPositionsOpen[index].selected]
  /\ UNCHANGED <<session, outputs, positions, pc, open, closed, aggregatedOpen, opensByKey, loop,
                 extractedPositionsClosed, closedStore, idCount, imported>>

\* Variant in which a toggle also clears what the matching wrote on the leg.
toggleSelectionClosedClearing(index) ==
  /\ pc = "review"
  /\ index \in 1..Len(extractedPositionsClosed)
  /\ extractedPositionsClosed' =
       [extractedPositionsClosed EXCEPT
          ![index].selected = ~extractedPositionsClosed[index].selected,
          ![index].realizedPnl = Null,
          ![index].pairedWith = NoId]
  /\ UNCHANGED <<session, outputs, positions, pc, open, closed, aggregatedOpen, opensByKey, loop,
                 extractedPositionsOpen, closedStore, idCount, imported>>

\* Lines 519-523.
toggleSelectionClosed(index) ==
  /\ pc = "review"
  /\ index \in 1..Len(extractedPositionsClosed)
  /\ extractedPositionsClosed' =
       [extractedPositionsClosed EXCEPT ![index].selected = ~extractedPositionsClosed[index].selected]
  /\ UNCHANGED <<session, outputs, positions, pc, open, closed, aggregatedOpen, opensByKey, loop,
                 extractedPositionsOpen, closedStore, idCount, imported>>

\* Lines 531-577.
handleImport ==
  /\ pc = "review"
  /\ LET selOpen == SelectSeq(extractedPositionsOpen, IsSelected)
         selClosed == SelectSeq(extractedPositionsClosed, IsSelected)
         selectedOpenPositions ==
           [k \in 1..Len(selOpen) |-> ImportedPosition(selOpen[k], idCount + k)]
         selectedClosedForHistory ==
           [k \in 1..Len(selClosed) |->
              HistoryRecord(selClosed[k], idCount + Len(selOpen) + k, "CSV Import", now)]
     IN /\ closedStore' = IF Len(selectedClosedForHistory) > 0
                          THEN MergeClosed(closedStore, selectedClosedForHistory)
                          ELSE closedStore
        /\ idCount' = idCount + Len(selOpen) + Len(selClosed)
        /\ imported' = Num(selectedOpenPositions)
  /\ pc' = "imported"
  /\ UNCHANGED <<session, outputs, positions, open, closed, aggregatedOpen, opensByKey, loop,
                 extractedPositionsOpen, extractedPositionsClosed>>

Next ==
  \/ NoPositions
  \/ ClassifyStep
  \/ AggregateStep
  \/ BuildPoolsStep
  \/ BeginLeg
  \/ MatchStep
  \/ EndLeg
  \/ PartitionStep
  \/ \E index \in 1..MaxLegs : toggleSelectionOpen(index)
  \/ \E index \in 1..MaxLegs : toggleSelectionClosed(index)
  \/ handleImport

Spec == Init /\ [][Next]_vars

\* The steps of handleAnalyze.  The handler is one synchronous stretch of
\* code after its awaits (lines 384-498) and nothing else runs until it ends.
Analyze ==
  \/ NoPositions
  \/ ClassifyStep
  \/ AggregateStep
  \/ BuildPoolsStep
  \/ BeginLeg
  \/ MatchStep
  \/ EndLeg
  \/ PartitionStep

FairSpec == Spec /\ WF_vars(Analyze)

(***************************************************************************)
(* The same file analysed again.  The Analyze button shows only while the  *)
(* review list of open positions is empty (line 655), so a second analysis *)
(* starts with the file being chosen again, which clears both review       *)
(* lists; the store and the id generators live on.                         *)
(***************************************************************************)
\* Lines 41-71, for the file of the analysis before.
handleFileSelect ==
  /\ pc = "review"
  /\ run < MaxRuns
  /\ extractedPositionsOpen' = <<>>
  /\ extractedPositionsClosed' = <<>>
  /\ pc' = "selected"
  /\ UNCHANGED <<session, outputs, positions, open, closed, aggregatedOpen, opensByKey,
                 loop, closedStore, idCount, imported>>

\* Variant that parses the file once and analyses the same row objects again:
\* the legs keep the _id, pairedWith and realizedPnl of the run before.
ParseAgainReusingRows ==
  /\ pc = "selected"
  /\ positions' = [i \in 1..Len(positions) |->
                     IF \E k \in 1..Len(closed) : closed[k]._id = positions[i]._id
                     THEN closed[CHOOSE k \in 1..Len(closed) : closed[k]._id = positions[i]._id]
                     ELSE positions[i]]
  /\ run' = run + 1
  /\ \E day \in {now.day, now.day + 1} : now' = [day |-> day, tick |-> now.tick + 1]
  /\ pc' = "parsed"
  /\ open' = <<>>
  /\ closed' = <<>>
  /\ aggregatedOpen' = <<>>
  /\ opensByKey' = <<>>
  /\ ci' = 0
  /\ pi' = 0
  /\ remainingToMatch' = 0
  /\ takes' = <<>>
  /\ unmatched' = <<>>
  /\ UNCHANGED <<outputs, review, saveArg, saveBefore, tabs>>

\* Lines 364-382: handleAnalyze parses the file again.  Every row gets a new
\* random _id (line 273), the locals of the run before are gone, and the
\* clock has moved on, to a later day or not.
ParseAgain ==
  /\ pc = "selected"
  /\ positions' = [i \in 1..Len(positions) |->
                     [positions[i] EXCEPT !._id = run * Len(positions) + i]]
  /\ run' = run + 1
  /\ \E day \in {now.day, now.day + 1} : now' = [day |-> day, tick |-> now.tick + 1]
  /\ pc' = "parsed"
  /\ open' = <<>>
  /\ closed' = <<>>
  /\ aggregatedOpen' = <<>>
  /\ opensByKey' = <<>>
  /\ ci' = 0
  /\ pi' = 0
  /\ remainingToMatch' = 0
  /\ takes' = <<>>
  /\ unmatched' = <<>>
  /\ UNCHANGED <<outputs, review, saveArg, saveBefore, tabs>>

NextRerun ==
  \/ Next
  \/ handleFileSelect
  \/ ParseAgain

\* Statements of one instrument at one opening and one closing price.
RerunInputs == Statements({r \in TwoInstrumentRows : r.ticker = "PLTR"}, MaxLegs)

InitRerun ==
  /\ Init
  /\ \E rows \in RerunInputs :
       positions = [i \in 1..Len(rows) |-> ExtractPosition(rows[i], i)]

SpecRerun == InitRerun /\ [][NextRerun]_vars

(***************************************************************************)
(* A second file with the same rows in another interleaving: the opening   *)
(* rows in the same order among themselves, the closing rows likewise.     *)
(***************************************************************************)
RowOrders(n) ==
  {f \in [1..n -> 1..n] : \A a \in 1..n, b \in 1..n : a # b => f[a] # f[b]}

Interleavings(ps) ==
  {f \in RowOrders(Len(ps)) :
     \A a \in 1..Len(ps), b \in 1..Len(ps) :
       (a < b /\ Classify(ps[f[a]]) = Classify(ps[f[b]])) => f[a] < f[b]}

\* Lines 364-382 for the second file, analysed later the same day.
ParseInterleaved ==
  /\ pc = "selected"
  /\ Len(outputs) = 1
  /\ \E f \in Interleavings(positions) :
       positions' = [i \in 1..Len(positions) |->
                       [positions[f[i]] EXCEPT !._id = Len(positions) + i]]
  /\ run' = run + 1
  /\ now' = [now EXCEPT !.tick = now.tick + 1]
  /\ pc' = "parsed"
  /\ open' = <<>>
  /\ closed' = <<>>
  /\ aggregatedOpen' = <<>>
  /\ opensByKey' = <<>>
  /\ ci' = 0
  /\ pi' = 0
  /\ remainingToMatch' = 0
  /\ takes' = <<>>
  /\ unmatched' = <<>>
  /\ UNCHANGED <<outputs, review, saveArg, saveBefore, tabs>>

NextShuffle ==
  \/ Next
  \/ handleFileSelect
  \/ ParseInterleaved

\* Statements of one instrument with lots at two prices.
ShuffleInputs == Statements({r \in PricedRows : r.entryPrice \in {50, 100, 200}}, MaxLegs)

InitShuffle ==
  /\ Init
  /\ \E rows \in ShuffleInputs :
       positions = [i \in 1..Len(rows) |-> ExtractPosition(rows[i], i)]

SpecShuffle == InitShuffle /\ [][NextShuffle]_vars

(***************************************************************************)
(* saveClosedPositions on its own: any stored list the functions of the    *)
(* store can have left (ids unique) and any batch, ids repeated or not.    *)
(***************************************************************************)
StoredRecord(id, qty) ==
  HistoryRecord(ExtractPosition(Row(PLTR, "sell", qty, 50, "2026-01-20", "BTC", TRUE), 1),
                id, "CSV Import", [day |-> 1, tick |-> 1])

StoredRecords == {StoredRecord(id, qty) : id \in 1..MaxIds, qty \in {1, 2}}

UniqueIds(list) ==
  \A k1 \in 1..Len(list), k2 \in 1..Len(list) : k1 # k2 => list[k1].id # list[k2].id

Batches == UNION {[1..n -> StoredRecords] : n \in 0..MaxBatch}
Stores == {list \in Batches : UniqueIds(list)}

InitSave ==
  /\ closedStore \in Stores
  /\ saveArg \in Batches
  /\ saveBefore = <<>>
  /\ tabPc = <<>>
  /\ tabBatch = <<>>
  /\ tabExisting = <<>>
  /\ events = <<>>
  /\ pc = "save"
  /\ positions = <<>>
  /\ open = <<>>
  /\ closed = <<>>
  /\ aggregatedOpen = <<>>
  /\ opensByKey = <<>>
  /\ ci = 0
  /\ pi = 0
  /\ remainingToMatch = 0
  /\ takes = <<>>
  /\ unmatched = <<>>
  /\ extractedPositionsOpen = <<>>
  /\ extractedPositionsClosed = <<>>
  /\ idCount = 0
  /\ imported = Null
  /\ run = 1
  /\ now = [day |-> 1, tick |-> 1]
  /\ outputs = <<>>

\* storage, lines 491-503: getClosedPositions, the merge, setItem.
saveClosedPositions ==
  /\ pc = "save"
  /\ saveBefore' = closedStore
  /\ closedStore' = MergeClosed(closedStore, saveArg)
  /\ pc' = "saved"
  /\ UNCHANGED <<positions, open, closed, aggregatedOpen, opensByKey, loop,
                 extractedPositionsOpen, extractedPositionsClosed, idCount, imported,
                 run, now, outputs, saveArg, tabs>>

NextSave == saveClosedPositions

SpecSave == InitSave /\ [][NextSave]_vars

(***************************************************************************)
(* Two imports in two tabs of the browser.  Both share localStorage; each  *)
(* runs saveClosedPositions, which reads the list with getItem, merges its *)
(* batch into the copy it read and writes the copy back with setItem.      *)
(* Nothing orders the getItem and setItem of one tab against those of the  *)
(* other.  generateId gives the two batches ids of their own.              *)
(***************************************************************************)
Tabs == {1, 2}

TabBatch(t, n) == [k \in 1..n |-> StoredRecord(MaxIds + (t - 1) * MaxBatch + k, 1)]

InitTabs ==
  /\ closedStore \in Stores
  /\ saveBefore = closedStore
  /\ tabBatch \in {[t \in Tabs |-> TabBatch(t, n[t])] : n \in [Tabs -> 1..MaxBatch]}
  /\ tabPc = [t \in Tabs |-> "call"]
  /\ tabExisting = [t \in Tabs |-> <<>>]
  /\ events = <<>>
  /\ saveArg = <<>>
  /\ pc = "tabs"
  /\ positions = <<>>
  /\ open = <<>>
  /\ closed = <<>>
  /\ aggregatedOpen = <<>>
  /\ opensByKey = <<>>
  /\ ci = 0
  /\ pi = 0
  /\ remainingToMatch = 0
  /\ takes = <<>>
  /\ unmatched = <<>>
  /\ extractedPositionsOpen = <<>>
  /\ extractedPositionsClosed = <<>>
  /\ idCount = 0
  /\ imported = Null
  /\ run = 1
  /\ now = [day |-> 1, tick |-> 1]
  /\ outputs = <<>>

engine == <<positions, pc, open, closed, aggregatedOpen, opensByKey, loop,
            extractedPositionsOpen, extractedPositionsClosed, idCount, imported,
            run, now, outputs, saveArg, saveBefore>>

\* storage, line 492: existing = getClosedPositions().
TabRead(t) ==
  /\ pc = "tabs"
  /\ tabPc[t] = "call"
  /\ tabExisting' = [tabExisting EXCEPT ![t] = closedStore]
  /\ tabPc' = [tabPc EXCEPT ![t] = "merge"]
  /\ events' = Append(events, <<"read", t>>)
  /\ UNCHANGED <<engine, closedStore, tabBatch>>

\* Variant that merges the batch into the list as it is stored at the write.
TabWriteIntoStored(t) ==
  /\ pc = "tabs"
  /\ tabPc[t] = "merge"
  /\ closedStore' = MergeClosed(closedStore, tabBatch[t])
  /\ tabPc' = [tabPc EXCEPT ![t] = "done"]
  /\ events' = Append(events, <<"write", t>>)
  /\ UNCHANGED <<engine, tabBatch, tabExisting>>

\* storage, lines 493-502: the merge into the copy and setItem.
TabWrite(t) ==
  /\ pc = "tabs"
  /\ tabPc[t] = "merge"
  /\ closedStore' = MergeClosed(tabExisting[t], tabBatch[t])
  /\ tabPc' = [tabPc EXCEPT ![t] = "done"]
  /\ events' = Append(events, <<"write", t>>)
  /\ UNCHANGED <<engine, tabBatch, tabExisting>>

NextTabs ==
  \/ \E t \in Tabs : TabRead(t)
  \/ \E t \in Tabs : TabWrite(t)

SpecTabs == InitTabs /\ [][NextTabs]_vars

(***************************************************************************)
(* Vocabulary of the properties.                                           *)
(***************************************************************************)
\* The instrument identity of a leg or lot.
Instrument(o) == [ticker |-> o.ticker, optionType |-> o.optionType,
                  strike |-> o.strike, expiry |-> o.expiry]
Instruments == {PLTR, AAPL, PLTRcall, PLTR155, PLTRmar}

Lots == 1..Len(aggregatedOpen)
Legs == 1..Len(closed)
HasRemainingField(o) == "remaining" \in DOMAIN o

\* Quantity leg k took from lots so far, and quantity taken from lot j.
TakenByLeg(k) == SumSeq([t \in 1..Len(takes) |-> IF takes[t].leg = k THEN takes[t].qty ELSE 0])
TakenFromLot(j) == SumSeq([t \in 1..Len(takes) |-> IF takes[t].lot = j THEN takes[t].qty ELSE 0])

\* The matcher is through with all closing legs.
MatchingDone == pc \in {"review", "imported"} /\ Len(positions) > 0

(***************************************************************************)
(* C1: at every step during and after the matching loop every lot has      *)
(* 0 <= remaining <= quantity (its total), and no step increases the       *)
(* remaining of a lot.                                                     *)
(***************************************************************************)
C1_RemainingBoundedMonotone ==
  [][\A j \in 1..Len(aggregatedOpen') :
        HasRemainingField(aggregatedOpen'[j]) =>
          /\ 0 <= aggregatedOpen'[j].remaining
          /\ aggregatedOpen'[j].remaining <= aggregatedOpen'[j].quantity
          /\ (j \in Lots /\ HasRemainingField(aggregatedOpen[j])) =>
                aggregatedOpen'[j].remaining <= aggregatedOpen[j].remaining]_vars

\* A lot partly consumed while the loop is still running.
C1_Witness ==
  /\ pc = "match"
  /\ \E j \in Lots : /\ HasRemainingField(aggregatedOpen[j])
                      /\ 0 < aggregatedOpen[j].remaining
                      /\ aggregatedOpen[j].remaining < aggregatedOpen[j].quantity

(***************************************************************************)
(* C2: for every closing leg the matcher has finished, the quantity taken  *)
(* from lots plus the final remainingToMatch is the leg's quantity, and    *)
(* neither part is negative (so matched <= quantity).                      *)
(***************************************************************************)
C2_MatchedPlusUnmatched ==
  \A k \in 1..Len(unmatched) :
     /\ TakenByLeg(k) + unmatched[k] = closed[k].quantity
     /\ TakenByLeg(k) <= closed[k].quantity
     /\ unmatched[k] >= 0

\* A finished leg that was matched in part only.
C2_Witness ==
  \E k \in 1..Len(unmatched) : TakenByLeg(k) > 0 /\ unmatched[k] > 0

(***************************************************************************)
(* C3: conservation. Once all closing legs are matched, for every          *)
(* instrument the quantity removed from its lots (total - remaining)       *)
(* equals the quantity its closing legs took.                              *)
(***************************************************************************)
RemovedFrom(I) ==
  SumSeq([j \in Lots |-> IF Instrument(aggregatedOpen[j]) = I
                          THEN aggregatedOpen[j].quantity - aggregatedOpen[j].remaining
                          ELSE 0])
MatchedFor(I) ==
  SumSeq([k \in Legs |-> IF Instrument(closed[k]) = I THEN TakenByLeg(k) ELSE 0])

C3_Conservation ==
  MatchingDone => \A I \in Instruments : RemovedFrom(I) = MatchedFor(I)

\* Lots of two instruments and a closing leg that consumed one of them.
C3_Witness ==
  /\ MatchingDone
  /\ \E j \in Lots : Instrument(aggregatedOpen[j]) = AAPL
  /\ RemovedFrom(PLTR) > 0
  /\ MatchedFor(PLTR) > 0

(***************************************************************************)
(* C4: realized P&L of a closing leg.                                      *)
(***************************************************************************)
\* The takes of leg k, in order, and the P&L the formula of the claim gives.
ReportedPnl(k) == IF closed[k].realizedPnl = Null THEN 0 ELSE closed[k].realizedPnl[1]
FormulaPnl(t) ==
  (aggregatedOpen[takes[t].lot].entryPrice - closed[takes[t].leg].entryPrice)
     * 100 * takes[t].qty
PnlOverAllLots(k) ==
  SumSeq([t \in 1..Len(takes) |-> IF takes[t].leg = k THEN FormulaPnl(t) ELSE 0])
PnlOverPricedLots(k) ==
  SumSeq([t \in 1..Len(takes) |->
            IF takes[t].leg = k /\ aggregatedOpen[takes[t].lot].entryPrice # 0
            THEN FormulaPnl(t) ELSE 0])

C5_OpenQuantityIsRemaining ==
  /\ pc \in {"review", "imported"} =>
        \A k \in 1..Len(extractedPositionsOpen) :
           extractedPositionsOpen[k].quantity = extractedPositionsOpen[k].remaining
  /\ imported # Null =>
        LET sel == SelectSeq(extractedPositionsOpen, IsSelected)
        IN \A k \in 1..Len(imported[1]) : imported[1][k].quantity = sel[k].remaining

(***************************************************************************)
(* C6: after a run a lot is in the open-positions output iff its remaining *)
(* is > 0, and the output keeps the order of the aggregation.              *)
(***************************************************************************)
LotOfOutput(k) ==
  CHOOSE j \in Lots : aggregatedOpen[j]._id = extractedPositionsOpen[k]._id

C6_OpenIffRemaining ==
  pc \in {"review", "imported"} =>
    /\ \A j \in Lots :
          (aggregatedOpen[j].remaining > 0) <=>
             (\E k \in 1..Len(extractedPositionsOpen) :
                 extractedPositionsOpen[k]._id = aggregatedOpen[j]._id)
    /\ \A k \in 1..Len(extractedPositionsOpen) :
          \E j \in Lots : aggregatedOpen[j]._id = extractedPositionsOpen[k]._id
    /\ \A k1, k2 \in 1..Len(extractedPositionsOpen) :
          k1 < k2 => LotOfOutput(k1) < LotOfOutput(k2)

\* A run that closed one lot entirely and left a later one open.
C6_Witness ==
  /\ pc = "review"
  /\ \E j1, j2 \in Lots :
        /\ j1 < j2
        /\ aggregatedOpen[j1].remaining = 0
        /\ aggregatedOpen[j2].remaining > 0
  /\ Len(extractedPositionsOpen) = 1

(***************************************************************************)
(* C7: a step of the matcher changes the remaining of a lot only if the    *)
(* lot has the instrument of the closing leg being processed, and every    *)
(* recorded take pairs a leg and a lot of one instrument, whatever their   *)
(* sides.                                                                  *)
(***************************************************************************)
C7_OnlyOwnInstrument ==
  [][/\ pc = "match" =>
          \A j \in Lots :
             aggregatedOpen'[j].remaining # aggregatedOpen[j].remaining =>
               /\ ci \in Legs
               /\ Instrument(aggregatedOpen[j]) = Instrument(closed[ci])
     /\ \A t \in 1..Len(takes') :
          Instrument(closed'[takes'[t].leg]) = Instrument(aggregatedOpen'[takes'[t].lot])]_vars

\* A closing buy that took from a sell lot.
C7_Witness ==
  \E t \in 1..Len(takes) :
     /\ closed[takes[t].leg].side = "buy"
     /\ aggregatedOpen[takes[t].lot].side = "sell"

(***************************************************************************)
(* Classification.                                                         *)
(***************************************************************************)
\* The spellings, among the codes of the inputs, of the codes of the table.
OpeningSpellings == {"STO", "sto", "SELL", "Sell"}
ClosingSpellings == {"BTC", "btc", "BTO", "OASGN", "BUY", "buy"}
\* Codes that are blank or in neither class of the table of lines 408-410.
UnrecognisedCodes == {Undefined, "", "OEXP", "put"}

TimesIn(list, p) == Cardinality({k \in 1..Len(list) : list[k]._id = p._id})
Classified == pc # "parsed"

(***************************************************************************)
(* C8: a valid leg whose code is STO or SELL, in any letter case, is in    *)
(* the open class and one whose code is BTC, BTO, OASGN or BUY is in the   *)
(* closed class, whatever its side.                                        *)
(***************************************************************************)
C8_CodeTable ==
  Classified =>
    \A i \in 1..Len(positions) :
       LET p == positions[i]
       IN IsValidPosition(p) =>
            /\ p.transCode \in OpeningSpellings =>
                  TimesIn(open, p) = 1 /\ TimesIn(closed, p) = 0
            /\ p.transCode \in ClosingSpellings =>
                  TimesIn(closed, p) = 1 /\ TimesIn(open, p) = 0

\* A lower-case sto on a buy row classified open.
C8_Witness ==
  /\ Classified
  /\ \E i \in 1..Len(positions) :
        /\ positions[i].transCode = "sto"
        /\ positions[i].side = "buy"
        /\ TimesIn(open, positions[i]) = 1

(***************************************************************************)
(* C9: a valid leg whose code is blank or unknown is in the open class     *)
(* when its side is sell and in the closed class otherwise, and every      *)
(* valid leg is in exactly one of the two classes, once.                   *)
(***************************************************************************)
C9_Fallback ==
  Classified =>
    \A i \in 1..Len(positions) :
       LET p == positions[i]
       IN IsValidPosition(p) =>
            /\ TimesIn(open, p) + TimesIn(closed, p) = 1
            /\ p.transCode \in UnrecognisedCodes =>
                  (TimesIn(open, p) = 1 <=> p.side = "sell")

\* An unknown code on a sell row classified open.
C9_Witness ==
  /\ Classified
  /\ \E i \in 1..Len(positions) :
        /\ positions[i].transCode = "OEXP"
        /\ positions[i].side = "sell"
        /\ TimesIn(open, positions[i]) = 1

(***************************************************************************)
(* C10: the lots are the groups of opening legs that agree on ticker,      *)
(* option type, strike, expiry, side, entry price and entry date: every    *)
(* opening leg went into the one lot that agrees with it on all seven, no  *)
(* two lots agree on all seven, and the quantity of a lot is the sum over  *)
(* exactly the legs that agree with it.                                    *)
(***************************************************************************)
SameEntry(a, b) ==
  /\ a.ticker = b.ticker
  /\ a.optionType = b.optionType
  /\ a.strike = b.strike
  /\ a.expiry = b.expiry
  /\ a.side = b.side
  /\ a.entryPrice = b.entryPrice
  /\ a.entryDate = b.entryDate

AggregationDone == pc \notin {"parsed", "classified"} /\ Len(positions) > 0

WithoutIds(r) == [f \in DOMAIN r \ {"id", "_id"} |-> r[f]]

C11_RecordTellsUnmatched ==
  MatchingDone =>
    \A k1 \in Legs, k2 \in Legs :
      (/\ WithoutIds(extractedPositionsClosed[k1]) = WithoutIds(extractedPositionsClosed[k2])
       /\ WithoutIds(closedStore[k1]) = WithoutIds(closedStore[k2]))
      => unmatched[k1] = unmatched[k2]

(***************************************************************************)
(* C12: a closing leg whose instrument has no lot at all is matched for 0  *)
(* contracts, its unmatched quantity is its whole quantity, it is paired   *)
(* with no lot, the realizedPnl of its history record is 0, and no step of *)
(* its turn in the loop changes the remaining of any lot.                  *)
(***************************************************************************)
NoLotFor(c) == \A j \in Lots : Instrument(aggregatedOpen[j]) # Instrument(c)

\* The history records the analysis saved, and the one of leg k of the
\* analysis that ran last.
IsAutoImport(r) == r.importedFrom = "CSV Auto-import"
AutoHistory == SelectSeq(closedStore, IsAutoImport)
HistoryOf(k) == AutoHistory[Len(AutoHistory) - Len(closed) + k]

C12_NoLotLeg ==
  [][/\ \A k \in 1..Len(unmatched') :
          NoLotFor(closed[k])' =>
            /\ TakenByLeg(k)' = 0
            /\ unmatched'[k] = closed'[k].quantity
            /\ closed'[k].pairedWith = NoId
     /\ MatchingDone' =>
          \A k \in 1..Len(closed') :
            NoLotFor(closed[k])' =>
              /\ HistoryOf(k)'.realizedPnl = 0
              /\ HistoryOf(k)'.notes[2] = "no"
              /\ extractedPositionsClosed'[k].pairedWith = NoId
     /\ (pc = "match" /\ ci \in Legs /\ NoLotFor(closed[ci])) =>
          aggregatedOpen' = aggregatedOpen
    ]_vars

C12_Witness ==
  /\ MatchingDone
  /\ \E k \in Legs :
       /\ NoLotFor(closed[k])
       /\ Lots # {}
       /\ closed[k].quantity >= 2
       /\ unmatched[k] = closed[k].quantity
       /\ HistoryOf(k).realizedPnl = 0

(***************************************************************************)
(* C13: the history one analysis saves holds exactly one record per        *)
(* closing leg, in the order of the legs in the input, also for the legs   *)
(* matched in part or not at all; no leg is left out and none is recorded  *)
(* twice.                                                                  *)
(***************************************************************************)
RecordIsOfLeg(r, c) ==
  /\ Instrument(r) = Instrument(c)
  /\ r.side = c.side
  /\ r.quantity = c.quantity
  /\ r.closePrice = c.entryPrice
  /\ r.notes[1] = (IF c.transCode = Undefined THEN "" ELSE c.transCode)

C13_OneRecordPerLeg ==
  MatchingDone =>
    /\ Len(AutoHistory) = Len(closed)
    /\ \A k \in Legs : RecordIsOfLeg(AutoHistory[k], closed[k])
    /\ \A k1 \in Legs, k2 \in Legs :
         /\ k1 # k2 => AutoHistory[k1].id # AutoHistory[k2].id
         /\ k1 < k2 => closed[k1]._id < closed[k2]._id

C13_Witness ==
  /\ MatchingDone
  /\ Len(AutoHistory) >= 2
  /\ \E k1 \in Legs, k2 \in Legs :
       /\ unmatched[k1] = closed[k1].quantity
       /\ 0 < unmatched[k2] /\ unmatched[k2] < closed[k2].quantity

(***************************************************************************)
(* C14: two analyses of the same input yield identical lots and closed     *)
(* trades, field for field, identifiers and dates included.                *)
(***************************************************************************)
Runs == 1..Len(outputs)

C14_RunsIdentical ==
  \A r1 \in Runs, r2 \in Runs :
    /\ outputs[r1].lots = outputs[r2].lots
    /\ outputs[r1].closed = outputs[r2].closed
    /\ outputs[r1].history = outputs[r2].history

(***************************************************************************)
(* C14 as it holds: two analyses of the same input yield lots, closed legs *)
(* and history records that are equal in every field except the generated  *)
(* identifiers (_id of a row, id of a record) and the fields read from the *)
(* clock (closeDate, importDate); the pairedWith of a leg names the lot at *)
(* the same position in both.                                              *)
(***************************************************************************)
WithoutIdsAndClock(r) ==
  [f \in DOMAIN r \ {"id", "_id", "pairedWith", "closeDate", "importDate"} |-> r[f]]

\* The positions of the lots whose _id the leg's pairedWith holds.
PairedLots(out, k) ==
  {j \in 1..Len(out.lots) : out.lots[j]._id = out.closed[k].pairedWith}

SameButIdsAndClock(a, b) ==
  /\ Len(a.lots) = Len(b.lots)
  /\ Len(a.closed) = Len(b.closed)
  /\ Len(a.history) = Len(b.history)
  /\ \A j \in 1..Len(a.lots) :
       WithoutIdsAndClock(a.lots[j]) = WithoutIdsAndClock(b.lots[j])
  /\ \A k \in 1..Len(a.closed) :
       /\ WithoutIdsAndClock(a.closed[k]) = WithoutIdsAndClock(b.closed[k])
       /\ PairedLots(a, k) = PairedLots(b, k)
  /\ \A k \in 1..Len(a.history) :
       WithoutIdsAndClock(a.history[k]) = WithoutIdsAndClock(b.history[k])

C14_RunsIdenticalButIdsAndClock ==
  \A r1 \in Runs, r2 \in Runs : SameButIdsAndClock(outputs[r1], outputs[r2])

C14_Witness ==
  /\ Len(outputs) >= 2
  /\ now.day > 1
  /\ \E k \in 1..Len(outputs[2].closed) :
       /\ PairedLots(outputs[2], k) # {}
       /\ outputs[2].history[k].realizedPnl # 0
       /\ outputs[2].history[k].id # outputs[1].history[k].id
       /\ outputs[2].history[k].closeDate # outputs[1].history[k].closeDate

(***************************************************************************)
(* C15: whatever the legs are (a zero or missing price, an instrument      *)
(* without lots), the analysis runs to completion, and then every valid    *)
(* row has been processed: every closing leg went through the matching     *)
(* loop and has its history record, also the legs that come after an       *)
(* anomalous one, and every opening leg is in a lot.                       *)
(***************************************************************************)
IsAnomalous(c) == c.entryPrice = 0 \/ NoLotFor(c)

EveryRowProcessed ==
  /\ Len(unmatched) = Len(closed)
  /\ Len(AutoHistory) = Len(closed)
  /\ Len(extractedPositionsClosed) = Len(closed)
  /\ \A i \in 1..Len(positions) :
       (/\ positions[i].ticker # ""
        /\ positions[i].strike > 0
        /\ positions[i].expiry # ""
        /\ positions[i].optionType \in {"call", "put"}
        /\ positions[i].descPutCall)
       => \/ \E k \in Legs : closed[k]._id = positions[i]._id
          \/ \E j \in Lots : SameEntry(aggregatedOpen[j], positions[i])

C15_RunsToCompletion ==
  (pc = "parsed" /\ Len(positions) > 0) ~> (pc = "review" /\ EveryRowProcessed)

C15_Witness ==
  /\ pc = "review"
  /\ EveryRowProcessed
  /\ \E k1 \in Legs, k2 \in Legs :
       /\ k1 < k2
       /\ NoLotFor(closed[k1])
       /\ TakenByLeg(k2) > 0

(***************************************************************************)
(* C16: the pairing reference of a closing leg names every lot the leg     *)
(* took contracts from; a leg that took from two or more lots references   *)
(* all of them, not only one.                                              *)
(***************************************************************************)
\* The _ids of the lots leg k took from, and the _ids its pairing reference holds.
LotsTakenBy(k) == {aggregatedOpen[takes[t].lot]._id : t \in {u \in 1..Len(takes) : takes[u].leg = k}}
ReferencedBy(c) == IF c.pairedWith = NoId THEN {} ELSE {c.pairedWith}

C16_PairingListsEveryLot ==
  MatchingDone =>
    \A k \in Legs :
      /\ LotsTakenBy(k) \subseteq ReferencedBy(closed[k])
      /\ LotsTakenBy(k) \subseteq ReferencedBy(extractedPositionsClosed[k])

(***************************************************************************)
(* C17: after saveClosedPositions(batch) every record of the batch is in   *)
(* the store; a stored record whose id is the id of a batch record is      *)
(* replaced in place by it; a batch record with a new id is appended at    *)
(* the end; every stored record whose id is not in the batch is unchanged  *)
(* and keeps its position; ids unique before are unique after, also when   *)
(* the batch repeats an id.                                                *)
(***************************************************************************)
BatchIds == {saveArg[b].id : b \in 1..Len(saveArg)}
BeforeIds == {saveBefore[k].id : k \in 1..Len(saveBefore)}
BatchRecordsWithId(id) == {saveArg[b] : b \in {x \in 1..Len(saveArg) : saveArg[x].id = id}}

\* The last record of the batch with this id.
LastWithId(id) ==
  saveArg[CHOOSE b \in 1..Len(saveArg) :
            /\ saveArg[b].id = id
            /\ \A b2 \in 1..Len(saveArg) : saveArg[b2].id = id => b2 <= b]

\* What the claim says of the records that were in the store, and of its length.
StoredKeepPlace ==
  /\ Len(closedStore) = Len(saveBefore) + Cardinality(BatchIds \ BeforeIds)
  /\ \A k \in 1..Len(saveBefore) :
       IF saveBefore[k].id \in BatchIds
       THEN closedStore[k] \in BatchRecordsWithId(saveBefore[k].id)
       ELSE closedStore[k] = saveBefore[k]
  /\ \A k \in (Len(saveBefore) + 1)..Len(closedStore) :
       /\ closedStore[k].id \notin BeforeIds
       /\ closedStore[k] \in BatchRecordsWithId(closedStore[k].id)
  /\ UniqueIds(saveBefore) => UniqueIds(closedStore)

C17_Upsert ==
  pc = "saved" =>
    /\ \A b \in 1..Len(saveArg) : \E k \in 1..Len(closedStore) : closedStore[k] = saveArg[b]
    /\ StoredKeepPlace

(***************************************************************************)
(* C17 as it holds: the same, except that of the batch records sharing an  *)
(* id only the last is in the store (each one replaces the one before it); *)
(* new ids are appended in the order of their first record in the batch.   *)
(***************************************************************************)
C17_UpsertLastWins ==
  pc = "saved" =>
    /\ \A id \in BatchIds :
         \E k \in 1..Len(closedStore) :
           /\ closedStore[k] = LastWithId(id)
           /\ \A k2 \in 1..Len(closedStore) : closedStore[k2].id = id => k2 = k
    /\ \A b1 \in 1..Len(saveArg), b2 \in 1..Len(saveArg),
          k1 \in (Len(saveBefore) + 1)..Len(closedStore),
          k2 \in (Len(saveBefore) + 1)..Len(closedStore) :
         (/\ closedStore[k1].id = saveArg[b1].id
          /\ closedStore[k2].id = saveArg[b2].id
          /\ \A x \in 1..b1 : saveArg[x].id = saveArg[b1].id => x = b1
          /\ \A x \in 1..b2 : saveArg[x].id = saveArg[b2].id => x = b2
          /\ b1 < b2)
         => k1 < k2
    /\ StoredKeepPlace

C17_Witness ==
  /\ pc = "saved"
  /\ Len(saveBefore) = 2
  /\ Len(saveArg) = 2
  /\ saveArg[1].id = saveBefore[1].id
  /\ saveArg[2].id \notin BeforeIds
  /\ closedStore = <<saveArg[1], saveBefore[2], saveArg[2]>>
  /\ saveArg[1] # saveBefore[1]

(***************************************************************************)
(* C18: analysing the same file again duplicates the history: after n      *)
(* analyses the store holds n records for every closing leg, under         *)
(* different ids, and so two per leg after the second analysis.            *)
(***************************************************************************)
LegsPerRun == Len(outputs[1].closed)
RecordOfRun(r, k) == AutoHistory[(r - 1) * LegsPerRun + k]

C18_RerunDuplicates ==
  Len(outputs) >= 1 =>
    /\ Len(AutoHistory) = Len(outputs) * LegsPerRun
    /\ \A r \in Runs, k \in 1..LegsPerRun :
         RecordIsOfLeg(RecordOfRun(r, k), outputs[1].closed[k])
    /\ \A r1 \in Runs, r2 \in Runs, k \in 1..LegsPerRun :
         r1 # r2 =>
           /\ RecordOfRun(r1, k).id # RecordOfRun(r2, k).id
           /\ RecordOfRun(r1, k).realizedPnl = RecordOfRun(r2, k).realizedPnl

C18_Witness ==
  /\ Len(outputs) = 2
  /\ LegsPerRun >= 2
  /\ Len(AutoHistory) = 2 * LegsPerRun
  /\ RecordOfRun(1, 1).realizedPnl # 0

(***************************************************************************)
(* C19: the total quantity of every lot is the sum of the quantities of    *)
(* the opening legs of its group, the lots together hold the quantity of   *)
(* all opening legs, and before the first match the remaining of every lot *)
(* is its total.                                                           *)
(***************************************************************************)
GroupOf(j) == {k \in 1..Len(open) : SameEntry(open[k], aggregatedOpen[j])}

RECURSIVE SumOver(_, _)
SumOver(S, q) ==
  IF S = {} THEN 0
  ELSE LET x == CHOOSE y \in S : TRUE IN q[x] + SumOver(S \ {x}, q)

OpenQuantities == [k \in 1..Len(open) |-> open[k].quantity]
LotQuantities == [j \in Lots |-> aggregatedOpen[j].quantity]

C19_LotTotals ==
  /\ AggregationDone =>
       /\ \A j \in Lots : aggregatedOpen[j].quantity = SumOver(GroupOf(j), OpenQuantities)
       /\ SumOver(Lots, LotQuantities) = SumOver(1..Len(open), OpenQuantities)
  /\ (pc = "match" /\ takes = <<>>) =>
       \A j \in Lots :
         /\ HasRemainingField(aggregatedOpen[j])
         /\ aggregatedOpen[j].remaining = aggregatedOpen[j].quantity

\* Before the first match of a closing leg: a lot made of two legs.
C19_Witness ==
  /\ pc = "match"
  /\ takes = <<>>
  /\ Len(closed) > 0
  /\ \E j \in Lots :
       /\ Cardinality(GroupOf(j)) = 2
       /\ aggregatedOpen[j].remaining = SumOver(GroupOf(j), OpenQuantities)
       /\ aggregatedOpen[j].remaining > open[1].quantity

(***************************************************************************)
(* C20: the lots are in the order in which their groups first appear among *)
(* the opening legs (lot A is before lot B exactly when the first leg of A *)
(* comes before the first leg of B), and the candidate list of every       *)
(* instrument holds the lots of that instrument in the same relative order.*)
(***************************************************************************)
FirstLegOf(j) == CHOOSE k \in GroupOf(j) : \A m \in GroupOf(j) : k <= m

PoolsBuilt == pc \in {"match", "review", "imported"} /\ Len(positions) > 0

C20_FirstSeenOrder ==
  /\ AggregationDone =>
       \A j1 \in Lots, j2 \in Lots : (j1 < j2) <=> (FirstLegOf(j1) < FirstLegOf(j2))
  /\ PoolsBuilt =>
       /\ \A j \in Lots : \E key \in DOMAIN opensByKey :
            \E a \in 1..Len(opensByKey[key]) : opensByKey[key][a] = j
       /\ \A key \in DOMAIN opensByKey :
            LET pool == opensByKey[key]
            IN /\ \A a \in 1..Len(pool), b \in 1..Len(pool) : a < b => pool[a] < pool[b]
               /\ {pool[a] : a \in 1..Len(pool)} =
                    {j \in Lots : Instrument(aggregatedOpen[j]) = Instrument(aggregatedOpen[pool[1]])}

\* Legs A, B, A of one instrument: lot A is first although its group ends last.
C20_Witness ==
  /\ PoolsBuilt
  /\ Len(open) = 3
  /\ Len(aggregatedOpen) = 2
  /\ GroupOf(1) = {1, 3}
  /\ GroupOf(2) = {2}
  /\ \E key \in DOMAIN opensByKey : opensByKey[key] = <<1, 2>>

(***************************************************************************)
(* C21: a step takes contracts from a lot only when every lot of the same  *)
(* instrument created before it has remaining 0; hence at every point,     *)
(* among the lots of one instrument in creation order, every lot after     *)
(* the first lot with remaining > 0 is untouched (remaining = total) and   *)
(* every lot before it is exhausted.                                       *)
(***************************************************************************)
SameInstrumentLots(j1, j2) == Instrument(aggregatedOpen[j1]) = Instrument(aggregatedOpen[j2])

C21_FifoByDiscovery ==
  [][/\ \A j \in Lots :
          (/\ HasRemainingField(aggregatedOpen[j])
           /\ j \in 1..Len(aggregatedOpen')
           /\ aggregatedOpen'[j].remaining < aggregatedOpen[j].remaining)
          => \A j0 \in 1..(j - 1) :
               SameInstrumentLots(j0, j) => aggregatedOpen[j0].remaining = 0
     /\ \A j1 \in 1..Len(aggregatedOpen'), j2 \in 1..Len(aggregatedOpen') :
          (/\ HasRemainingField(aggregatedOpen'[j1])
           /\ j1 < j2
           /\ SameInstrumentLots(j1, j2)'
           /\ aggregatedOpen'[j1].remaining > 0)
          => aggregatedOpen'[j2].remaining = aggregatedOpen'[j2].quantity
    ]_vars

\* The first lot of an instrument is exhausted and the second is untouched.
C21_Witness ==
  /\ MatchingDone
  /\ \E j1 \in Lots, j2 \in Lots :
       /\ j1 < j2
       /\ SameInstrumentLots(j1, j2)
       /\ TakenFromLot(j1) > 0
       /\ aggregatedOpen[j1].remaining = 0
       /\ aggregatedOpen[j2].remaining = aggregatedOpen[j2].quantity

(***************************************************************************)
(* C22: a lot keeps the row identifiers of all opening legs merged into    *)
(* it: a lot merged from two rows references both rows.                    *)
(***************************************************************************)
\* The row identifiers a lot holds: the lot is a copy of the first leg of its
\* group and has no other field for them than _id.
RowIdsOf(o) == {o._id}

C22_LotKeepsProvenance ==
  AggregationDone =>
    \A j \in Lots : \A k \in GroupOf(j) : open[k]._id \in RowIdsOf(aggregatedOpen[j])

(***************************************************************************)
(* C23: the side in the history record of a closing leg is the side of     *)
(* the lot it took contracts from, also when the leg's own side in the     *)
(* statement is the opposite one.                                          *)
(***************************************************************************)
C23_SideOfLotClosed ==
  MatchingDone =>
    \A t \in 1..Len(takes) :
      HistoryOf(takes[t].leg).side = aggregatedOpen[takes[t].lot].side

(***************************************************************************)
(* C24: a closing leg at price 0 (an assignment) that is matched in full   *)
(* against lots with a positive entry price e gets realizedPnl = e x 100 x *)
(* matched quantity (200 for 1 contract opened at 2.00), and the lots it   *)
(* took from lose the matched quantity like for any other closing leg.     *)
(***************************************************************************)
TakesOf(k) == {t \in 1..Len(takes) : takes[t].leg = k}
EntryValueTaken(k) ==
  SumSeq([t \in 1..Len(takes) |->
            IF takes[t].leg = k
            THEN (aggregatedOpen[takes[t].lot].entryPrice * 100) * takes[t].qty
            ELSE 0])

IsAssignmentAtZero(k) ==
  /\ closed[k].entryPrice = 0
  /\ unmatched[k] = 0
  /\ \A t \in TakesOf(k) : aggregatedOpen[takes[t].lot].entryPrice > 0

C24_AssignmentAtZero ==
  MatchingDone =>
    /\ \A k \in Legs :
         IsAssignmentAtZero(k) =>
           /\ closed[k].realizedPnl = Num(EntryValueTaken(k))
           /\ HistoryOf(k).realizedPnl = EntryValueTaken(k)
           /\ TakenByLeg(k) = closed[k].quantity
    /\ \A j \in Lots :
         aggregatedOpen[j].remaining = aggregatedOpen[j].quantity - TakenFromLot(j)

\* STO qty 1 at 2.00 closed by OASGN qty 1 at 0.00: 200.00.
C24_Witness ==
  /\ MatchingDone
  /\ Len(closed) = 1
  /\ Len(aggregatedOpen) = 1
  /\ closed[1].transCode = "OASGN"
  /\ closed[1].entryPrice = 0
  /\ aggregatedOpen[1].entryPrice = 200
  /\ aggregatedOpen[1].quantity = 1
  /\ closed[1].quantity = 1
  /\ HistoryOf(1).realizedPnl = 20000
  /\ aggregatedOpen[1].remaining = 0

(***************************************************************************)
(* C25: the write of the closed history is an unprotected read-modify-     *)
(* write.  When both tabs read the stored list before either writes it,    *)
(* the second write overwrites the first and the final store lacks the     *)
(* records of the first writer; when the two calls run one after the       *)
(* other, the final store holds the records of both.  Either way it holds  *)
(* what was stored before and the records of the last writer.              *)
(***************************************************************************)
BothDone == pc = "tabs" /\ \A t \in Tabs : tabPc[t] = "done"
StoreHolds(list) == \A b \in 1..Len(list) : \E k \in 1..Len(closedStore) : closedStore[k] = list[b]
StoreHoldsNoneOf(list) ==
  \A b \in 1..Len(list) : \A k \in 1..Len(closedStore) : closedStore[k].id # list[b].id

\* Both reads come before both writes.
BothReadFirst == events[1][1] = "read" /\ events[2][1] = "read"
FirstWriter == IF events[2][1] = "write" THEN events[2][2] ELSE events[3][2]
LastWriter == events[4][2]

C25_LostUpdate ==
  BothDone =>
    /\ StoreHolds(saveBefore)
    /\ StoreHolds(tabBatch[LastWriter])
    /\ IF BothReadFirst
       THEN /\ StoreHoldsNoneOf(tabBatch[FirstWriter])
            /\ Len(closedStore) = Len(saveBefore) + Len(tabBatch[LastWriter])
       ELSE /\ StoreHolds(tabBatch[FirstWriter])
            /\ Len(closedStore) =
                 Len(saveBefore) + Len(tabBatch[1]) + Len(tabBatch[2])

\* The final store lacks the records of one of the two imports.
C25_Witness ==
  /\ BothDone
  /\ BothReadFirst
  /\ Len(saveBefore) > 0
  /\ \E t \in Tabs : StoreHoldsNoneOf(tabBatch[t]) /\ Len(tabBatch[t]) = 2

(***************************************************************************)
(* C26: only the matching loop changes the remaining of a lot.  No lot has *)
(* a remaining before classification and aggregation are over; the         *)
(* partition, the history records, the selection toggles and handleImport  *)
(* leave the remaining of every lot and the realizedPnl and pairing of     *)
(* every closing leg as the matching left them, in the lists of the run    *)
(* and in the reviewed lists.                                              *)
(***************************************************************************)
RemainingOf(list) ==
  [j \in 1..Len(list) |-> IF HasRemainingField(list[j]) THEN <<list[j].remaining>> ELSE <<>>]
PnlAndPairingOf(list) ==
  [k \in 1..Len(list) |-> <<list[k].realizedPnl, list[k].pairedWith>>]

C26_OnlyMatchingChangesRemaining ==
  [][/\ pc \in {"parsed", "classified"} =>
          \A j \in 1..Len(aggregatedOpen') : ~HasRemainingField(aggregatedOpen'[j])
     /\ (\E j \in Lots :
           /\ HasRemainingField(aggregatedOpen[j])
           /\ j \in 1..Len(aggregatedOpen')
           /\ aggregatedOpen'[j].remaining # aggregatedOpen[j].remaining)
          => (pc = "match" /\ pc' = "match" /\ Len(takes') = Len(takes) + 1)
     /\ ((pc = "match" /\ pc' = "review") \/ pc = "review") =>
          /\ RemainingOf(aggregatedOpen') = RemainingOf(aggregatedOpen)
          /\ PnlAndPairingOf(closed') = PnlAndPairingOf(closed)
          /\ PnlAndPairingOf(extractedPositionsClosed') = PnlAndPairingOf(closed)
          /\ \A k \in 1..Len(extractedPositionsOpen') :
               \E j \in Lots :
                 /\ aggregatedOpen[j]._id = extractedPositionsOpen'[k]._id
                 /\ aggregatedOpen[j].remaining = extractedPositionsOpen'[k].remaining
          /\ \A k \in Legs :
               /\ HistoryOf(k)'.realizedPnl = (IF closed[k].realizedPnl = Null THEN 0
                                              ELSE closed[k].realizedPnl[1])
               /\ (HistoryOf(k)'.notes[2] = "yes") <=> (closed[k].pairedWith # NoId)
    ]_vars

\* After the import with a leg deselected: a lot partly closed, a leg with P&L.
C26_Witness ==
  /\ pc = "imported"
  /\ \E j \in Lots :
       /\ 0 < aggregatedOpen[j].remaining
       /\ aggregatedOpen[j].remaining < aggregatedOpen[j].quantity
       /\ \E k \in 1..Len(extractedPositionsOpen) :
            extractedPositionsOpen[k].remaining = aggregatedOpen[j].remaining
  /\ \E k \in Legs :
       /\ ~extractedPositionsClosed[k].selected
       /\ extractedPositionsClosed[k].realizedPnl # Null
       /\ extractedPositionsClosed[k].pairedWith # NoId

(***************************************************************************)
(* C27: at the moment a closing leg leaves the loop, either nothing of it  *)
(* is left to match or every lot of its instrument has remaining 0; its    *)
(* matched quantity is min(leg quantity, what the lots of its instrument   *)
(* held just before its turn).                                             *)
(***************************************************************************)
LotsOfLeg(c) == {j \in Lots : Instrument(aggregatedOpen[j]) = Instrument(c)}
RemainingNow == [j \in Lots |-> aggregatedOpen[j].remaining]
TakenFromBy(j, k) ==
  SumSeq([t \in 1..Len(takes) |->
            IF takes[t].lot = j /\ takes[t].leg = k THEN takes[t].qty ELSE 0])

\* What the lots of leg k's instrument held before the leg took from them;
\* meant for the step at which leg k leaves the loop.
AvailableBefore(k) ==
  SumOver(LotsOfLeg(closed[k]), [j \in Lots |-> aggregatedOpen[j].remaining + TakenFromBy(j, k)])

C27_GreedyMaximal ==
  [][Len(unmatched') = Len(unmatched) + 1 =>
       LET k == Len(unmatched')
       IN /\ \/ unmatched'[k] = 0
             \/ \A j \in LotsOfLeg(closed[k]) : aggregatedOpen[j].remaining = 0
          /\ TakenByLeg(k) = (IF closed[k].quantity <= AvailableBefore(k)
                              THEN closed[k].quantity ELSE AvailableBefore(k))
          /\ unmatched'[k] = closed[k].quantity - TakenByLeg(k)
    ]_vars

\* A leg that emptied the lots of its instrument and was left with a remainder.
C27_Witness ==
  /\ MatchingDone
  /\ \E k \in Legs :
       /\ unmatched[k] > 0
       /\ TakenByLeg(k) > 0
       /\ \A j \in LotsOfLeg(closed[k]) : aggregatedOpen[j].remaining = 0

(***************************************************************************)
(* C28: after a run, for every instrument with O contracts opened and C    *)
(* contracts closed, the remaining quantities of its lots add up to        *)
(* max(0, O - C) and the unmatched quantities of its closing legs add up   *)
(* to max(0, C - O).                                                       *)
(***************************************************************************)
SeenInstruments ==
  {Instrument(open[k]) : k \in 1..Len(open)} \cup {Instrument(closed[k]) : k \in Legs}

Opened(i) == SumSeq([k \in 1..Len(open) |-> IF Instrument(open[k]) = i THEN open[k].quantity ELSE 0])
Closed(i) == SumSeq([k \in 1..Len(closed) |-> IF Instrument(closed[k]) = i THEN closed[k].quantity ELSE 0])
RemainingIn(i) ==
  SumSeq([j \in 1..Len(aggregatedOpen) |->
            IF Instrument(aggregatedOpen[j]) = i THEN aggregatedOpen[j].remaining ELSE 0])
UnmatchedIn(i) ==
  SumSeq([k \in 1..Len(closed) |-> IF Instrument(closed[k]) = i THEN unmatched[k] ELSE 0])
Positive(n) == IF n > 0 THEN n ELSE 0

C28_BalancePerInstrument ==
  MatchingDone =>
    \A i \in SeenInstruments :
      /\ RemainingIn(i) = Positive(Opened(i) - Closed(i))
      /\ UnmatchedIn(i) = Positive(Closed(i) - Opened(i))

\* One instrument over-closed by several legs, another left partly open.
C28_Witness ==
  /\ MatchingDone
  /\ \E i1 \in SeenInstruments, i2 \in SeenInstruments :
       /\ Closed(i1) > Opened(i1)
       /\ Opened(i1) > 0
       /\ Opened(i2) > Closed(i2)
       /\ UnmatchedIn(i1) > 0
       /\ RemainingIn(i2) > 0

(***************************************************************************)
(* C29: the result does not depend on how opening and closing rows are     *)
(* interleaved: two files with the same sequence of opening rows and the   *)
(* same sequence of closing rows give the same lots with the same          *)
(* remaining and the same realized P&L and pairing for every closing leg,  *)
(* also for a closing row that stands before its opening row.              *)
(***************************************************************************)
LotResults(out) ==
  [j \in 1..Len(out.lots) |->
     <<Instrument(out.lots[j]), out.lots[j].side, out.lots[j].entryPrice,
       out.lots[j].entryDate, out.lots[j].quantity, out.lots[j].remaining>>]
LegResults(out) ==
  [k \in 1..Len(out.closed) |->
     <<Instrument(out.closed[k]), out.closed[k].quantity, out.closed[k].entryPrice,
       out.closed[k].realizedPnl, PairedLots(out, k), out.history[k].realizedPnl>>]

C29_InterleavingIndependent ==
  \A r1 \in Runs, r2 \in Runs :
    /\ LotResults(outputs[r1]) = LotResults(outputs[r2])
    /\ LegResults(outputs[r1]) = LegResults(outputs[r2])

\* In the first file the closing row stands before the row of the lot it
\* is paired with, in the second file after it.
C29_Witness ==
  /\ Len(outputs) = 2
  /\ \E k \in 1..Len(outputs[1].closed), j \in 1..Len(outputs[1].lots) :
       /\ j \in PairedLots(outputs[1], k)
       /\ outputs[1].closed[k]._id < outputs[1].lots[j]._id
       /\ outputs[2].closed[k]._id > outputs[2].lots[j]._id
       /\ outputs[2].closed[k].realizedPnl # Null
       /\ outputs[2].lots[j].remaining > 0

\* ---------------------------------------------------------------------------
\* History writes of one import flow
\* ---------------------------------------------------------------------------

IsManualImport(r) == r.importedFrom = "CSV Import"
ManualHistory == SelectSeq(closedStore, IsManualImport)
IsTicked(p) == p.selected
TickedLegs == SelectSeq(extractedPositionsClosed, IsTicked)
StoredIds == {closedStore[i].id : i \in 1..Len(closedStore)}

\* C30: once a file is analysed the history holds one "CSV Auto-import"
\* record for every closing leg, ticked or not, and unticking a leg removes
\* none of them; after Import it holds in addition one "CSV Import" record,
\* under an id of its own, for every closing leg that is ticked, so that the
\* history has grown by (closing legs) + (ticked closing legs).
C30_HistoryWrites ==
  MatchingDone =>
    /\ Len(AutoHistory) = Len(closed)
    /\ \A k \in 1..Len(closed) :
         /\ AutoHistory[k].quantity = closed[k].quantity
         /\ AutoHistory[k].closePrice = closed[k].entryPrice
    /\ Cardinality(StoredIds) = Len(closedStore)
    /\ pc = "review" => Len(closedStore) = Len(closed)
    /\ pc = "imported" =>
         /\ Len(closedStore) = Len(closed) + Len(TickedLegs)
         /\ Len(ManualHistory) = Len(TickedLegs)
         /\ \A k \in 1..Len(TickedLegs) :
              /\ ManualHistory[k].quantity = TickedLegs[k].quantity
              /\ ManualHistory[k].closePrice = TickedLegs[k].entryPrice
              /\ \A i \in 1..Len(AutoHistory) : AutoHistory[i].id # ManualHistory[k].id

C30_Witness ==
  /\ pc = "imported"
  /\ Len(closed) >= 2
  /\ Len(TickedLegs) = 1
  /\ Len(closedStore) = Len(closed) + 1
====
